---- MODULE Spec2Model ----
(***************************************************************************)
(* Model of src/app.js: the panorama viewer's start-up (window load and    *)
(* three image loads joined by Promise.all), its input handlers (keys,     *)
(* mouse, resize) and its frame driver (startAnimation, stopAnimation,     *)
(* animate, step, update, render).                                         *)
(*                                                                         *)
(* JavaScript runs every handler to completion on one thread, so each      *)
(* handler, with every call it makes, is one action.  A handler is written *)
(* as a function from the program state (a record, Cur) to the program     *)
(* state; an action commits the record its handler returns.                *)
(*                                                                         *)
(* Units.  Time is counted in units of 1/(FrameRate * FrameSubdivisions)   *)
(* seconds, so 1000/60 ms is FrameSubdivisions units.  imageOffsetX is     *)
(* counted in 1/UnitsPerSecond pixels, so that                             *)
(* panningSpeed * dt / 1000 (dt in ms) is exactly panningSpeed * dt        *)
(* (dt in time units).  Canvas and image sizes are whole pixels.  The      *)
(* arguments of the draw calls are counted in 1/DrawScale pixels, which    *)
(* makes x * 0.937 / 2 a whole number.  The arithmetic is exact; the       *)
(* rounding error of IEEE doubles is not modelled.                         *)
(***************************************************************************)
EXTENDS Integers, Sequences, FiniteSets, TLC

VARIABLES
  windowLoaded,       \* the window's load event has fired (promiseWindowLoaded)
  loads,              \* state of the three fetchImage promises
  mainState,          \* main(): "awaiting" the join, "resumed" or "rejected"
  rect,               \* the canvas element's bounding client rect (layout)
  now,                \* timestamp of the latest animation frame the browser ran
  pending,            \* handles of the animation frame requests not yet run
  mouseListener,      \* the mousemove listener is installed on the canvas
  canvas,             \* canvas.width, canvas.height
  foregroundImage, backgroundImage, borderImage,
  foregroundCanvas, backgroundCanvas, borderCanvas,
  imageScale,         \* a fraction [num, den]
  ready, animating,
  imageOffsetX,
  animationRequestID,
  mouse,
  previousTime,
  g_keys,
  last,               \* what the most recent handler did (observation only)
  panTime,            \* history: sum of the effective dt of the scenario's ticks
  probe               \* a call of clamp under test: its arguments and result

vars == <<windowLoaded, loads, mainState, rect, now, pending, mouseListener, canvas,
          foregroundImage, backgroundImage, borderImage,
          foregroundCanvas, backgroundCanvas, borderCanvas, imageScale,
          ready, animating, imageOffsetX, animationRequestID, mouse,
          previousTime, g_keys, last, panTime, probe>>

----------------------------------------------------------------------------
(* Bounds of the model *)

\* time units per 1000/60 ms
FrameSubdivisions == 2

\* the largest animation frame timestamp, in time units
MaxTime == 3

\* the arguments of clamp under test lie in -MaxClampArg..MaxClampArg
MaxClampArg == 3

----------------------------------------------------------------------------
(* Constants of the program *)

\* Math.max(currentTime - previousTime, 1000 / 60)
FrameRate == 60

panningSpeed == 800

KEY_ARROW_LEFT == 37
KEY_ARROW_RIGHT == 39
KEY_A == 65
KEY_D == 68

\* borderWidth * 0.937
LensRatioNum == 937
LensRatioDen == 1000

\* imageScale * 1.8
BorderScaleNum == 18
BorderScaleDen == 10

UnitsPerSecond == FrameRate * FrameSubdivisions

\* 1000 / 60 ms, in time units
MinFrameTime == UnitsPerSecond \div FrameRate

\* whole pixels in offset units
Px(n) == n * UnitsPerSecond

\* draw-call coordinates: 1/DrawScale pixels
DrawScale == UnitsPerSecond * 2 * LensRatioDen

\* an offset (1/UnitsPerSecond px) in draw-call units
OffsetToDraw(x) == x * 2 * LensRatioDen

\* whole pixels in draw-call units
PxToDraw(n) == n * DrawScale

----------------------------------------------------------------------------
(* Inputs *)

Keys == {KEY_ARROW_LEFT, KEY_ARROW_RIGHT, KEY_A, KEY_D}

Times == 0..MaxTime

Size(w, h) == [width |-> w, height |-> h]

\* bounding client rects of the canvas element
Rects == {Size(21, 20), Size(31, 20), Size(31, 10)}

MousePositions == {[x |-> 0, y |-> 0], [x |-> 10, y |-> 5]}

ImageNames == {"foreground", "background", "border"}

\* natural sizes an image file can decode to
ImageSizes(name) ==
  CASE name = "foreground" -> {Size(41, 20)}
    [] name = "background" -> {Size(41, 20), Size(40, 20)}
    [] name = "border" -> {Size(10, 6)}

\* a variable holding undefined: an image not yet assigned
NoImage == Size(0, 0)

\* document.createElement("canvas"): 300 x 150
NewCanvas == Size(300, 150)

NoHandle == 0

\* no call of clamp under test
NoProbe == [applied |-> FALSE, value |-> 0, minValue |-> 0, maxValue |-> 0,
            result |-> [threw |-> FALSE, value |-> 0]]

\* F applied to the value of v: v is evaluated once, as a call evaluates its
\* argument before the body runs
Then(v, F(_)) == CHOOSE r \in {F(x) : x \in {v}} : TRUE

Max(a, b) == IF a >= b THEN a ELSE b
Min(a, b) == IF a <= b THEN a ELSE b

----------------------------------------------------------------------------
(* The program state as a record *)

Cur ==
  [windowLoaded |-> windowLoaded, loads |-> loads, mainState |-> mainState,
   rect |-> rect, now |-> now,
   pending |-> pending, mouseListener |-> mouseListener, canvas |-> canvas,
   foregroundImage |-> foregroundImage, backgroundImage |-> backgroundImage,
   borderImage |-> borderImage, foregroundCanvas |-> foregroundCanvas,
   backgroundCanvas |-> backgroundCanvas, borderCanvas |-> borderCanvas,
   imageScale |-> imageScale, ready |-> ready, animating |-> animating,
   imageOffsetX |-> imageOffsetX, animationRequestID |-> animationRequestID,
   mouse |-> mouse, previousTime |-> previousTime, g_keys |-> g_keys,
   last |-> last]

CommitProgram(s) ==
  /\ windowLoaded' = s.windowLoaded
  /\ loads' = s.loads
  /\ mainState' = s.mainState
  /\ rect' = s.rect
  /\ now' = s.now
  /\ pending' = s.pending
  /\ mouseListener' = s.mouseListener
  /\ canvas' = s.canvas
  /\ foregroundImage' = s.foregroundImage
  /\ backgroundImage' = s.backgroundImage
  /\ borderImage' = s.borderImage
  /\ foregroundCanvas' = s.foregroundCanvas
  /\ backgroundCanvas' = s.backgroundCanvas
  /\ borderCanvas' = s.borderCanvas
  /\ imageScale' = s.imageScale
  /\ ready' = s.ready
  /\ animating' = s.animating
  /\ imageOffsetX' = s.imageOffsetX
  /\ animationRequestID' = s.animationRequestID
  /\ mouse' = s.mouse
  /\ previousTime' = s.previousTime
  /\ g_keys' = s.g_keys
  /\ last' = s.last

\* a handler of the program leaves the history and the probe alone
Commit(s) ==
  \E r \in {s} : CommitProgram(r) /\ UNCHANGED <<panTime, probe>>

\* the program state is the record s
Holds(s) ==
  /\ windowLoaded = s.windowLoaded
  /\ loads = s.loads
  /\ mainState = s.mainState
  /\ rect = s.rect
  /\ now = s.now
  /\ pending = s.pending
  /\ mouseListener = s.mouseListener
  /\ canvas = s.canvas
  /\ foregroundImage = s.foregroundImage
  /\ backgroundImage = s.backgroundImage
  /\ borderImage = s.borderImage
  /\ foregroundCanvas = s.foregroundCanvas
  /\ backgroundCanvas = s.backgroundCanvas
  /\ borderCanvas = s.borderCanvas
  /\ imageScale = s.imageScale
  /\ ready = s.ready
  /\ animating = s.animating
  /\ imageOffsetX = s.imageOffsetX
  /\ animationRequestID = s.animationRequestID
  /\ mouse = s.mouse
  /\ previousTime = s.previousTime
  /\ g_keys = s.g_keys
  /\ last = s.last

\* the record of a handler that has just been entered
Entered(op) ==
  [op |-> op, steps |-> <<>>, elapsed |-> 0, dt |-> 0, movement |-> 0,
   pan |-> "none", threw |-> FALSE, frame |-> <<>>]

Enter(s, op) == [s EXCEPT !.last = Entered(op)]

Did(s, name) == [s EXCEPT !.last.steps = Append(@, name)]

Throw(s) == [s EXCEPT !.last.threw = TRUE]

----------------------------------------------------------------------------
(* Helpers *)

\* clamp without its upper bound
clamp_noUpper(value, minValue, maxValue) ==
  IF ~(minValue <= maxValue) THEN [threw |-> TRUE, value |-> value]
  ELSE IF value < minValue THEN [threw |-> FALSE, value |-> minValue]
  ELSE [threw |-> FALSE, value |-> value]

\* assert(minValue <= maxValue), then the value brought into the range
clamp(value, minValue, maxValue) ==
  IF ~(minValue <= maxValue) THEN [threw |-> TRUE, value |-> value]
  ELSE IF value < minValue THEN [threw |-> FALSE, value |-> minValue]
  ELSE IF value > maxValue THEN [threw |-> FALSE, value |-> maxValue]
  ELSE [threw |-> FALSE, value |-> value]

\* !!g_keys[keyCode]: an entry never written is undefined, which is falsy, and
\* is held as FALSE
isKeyDown(keys, keyCode) == keys[keyCode]

\* isOneKeyDown that wants every key of the list down
isOneKeyDown_all(keys, keyCodes) ==
  \A i \in 1..Len(keyCodes) : isKeyDown(keys, keyCodes[i])

isOneKeyDown(keys, keyCodes) ==
  \E i \in 1..Len(keyCodes) : isKeyDown(keys, keyCodes[i])

\* Math.round(n / d) for n >= 0 and d > 0: halves round up
Round(n, d) == (2 * n + d) \div (2 * d)

\* the target canvas's size after resizeImage(source, target, num / den)
resizeImage(source, num, den) ==
  Size(Round(num * source.width, den), Round(num * source.height, den))

resizeImages(s) ==
  [s EXCEPT
     !.backgroundCanvas =
        resizeImage(s.backgroundImage, s.imageScale.num, s.imageScale.den),
     !.foregroundCanvas =
        resizeImage(s.foregroundImage, s.imageScale.num, s.imageScale.den),
     !.borderCanvas =
        resizeImage(s.borderImage, s.imageScale.num * BorderScaleNum,
                    s.imageScale.den * BorderScaleDen)]

\* resizeCanvas that also sends the pan offset back to 0
resizeCanvas_resetOffset(s) ==
  IF ~s.ready THEN s
  ELSE resizeImages(
         [Did(s, "resizeCanvas") EXCEPT
            !.canvas = s.rect,
            !.imageOffsetX = 0,
            !.imageScale =
               [num |-> s.rect.height, den |-> s.foregroundImage.height]])

\* resizeCanvas that takes the scale from the widths
resizeCanvas_scaleByWidth(s) ==
  IF ~s.ready THEN s
  ELSE resizeImages(
         [Did(s, "resizeCanvas") EXCEPT
            !.canvas = s.rect,
            !.imageScale =
               [num |-> s.rect.width, den |-> s.foregroundImage.width]])

resizeCanvas(s) ==
  IF ~s.ready THEN s
  ELSE resizeImages(
         [Did(s, "resizeCanvas") EXCEPT
            !.canvas = s.rect,
            !.imageScale =
               [num |-> s.rect.height, den |-> s.foregroundImage.height]])

----------------------------------------------------------------------------
(* The browser's animation frame requests *)

\* A handle no request in flight has and the program does not hold.  Browsers
\* number requests upwards; the program keeps only animationRequestID, so a
\* handle that was run and forgotten is indistinguishable from a new one.
FreshHandle(s) ==
  CHOOSE h \in 1..(Cardinality(s.pending) + 2) :
    /\ h \notin s.pending \cup {s.animationRequestID}
    /\ \A g \in 1..(h - 1) : g \in s.pending \cup {s.animationRequestID}

\* animationRequestID = window.requestAnimationFrame(animate)
requestAnimationFrame(s) ==
  LET h == FreshHandle(s)
  IN  [Did(s, "requestAnimationFrame") EXCEPT
         !.pending = @ \cup {h},
         !.animationRequestID = h]

cancelAnimationFrame(s, h) == [s EXCEPT !.pending = @ \ {h}]

----------------------------------------------------------------------------
(* The frame driver *)

\* update with the pan-right keys tested first
update_rightFirst(s, dt) ==
  LET imageMovement == panningSpeed * dt
      canvasWidth == s.canvas.width
      imageWidth == s.foregroundCanvas.width
      limit == Px(imageWidth - canvasWidth)
      s1 == [Did(s, "update") EXCEPT !.last.movement = imageMovement]
      left == clamp(s.imageOffsetX - imageMovement, 0, limit)
      right == clamp(s.imageOffsetX + imageMovement, 0, limit)
  IN  IF ~(canvasWidth < imageWidth) THEN Throw(s1)
      ELSE IF isOneKeyDown(s.g_keys, <<KEY_ARROW_RIGHT, KEY_D>>)
        THEN IF right.threw THEN Throw(s1)
             ELSE [s1 EXCEPT !.imageOffsetX = right.value,
                             !.last.pan = "right"]
      ELSE IF isOneKeyDown(s.g_keys, <<KEY_ARROW_LEFT, KEY_A>>)
        THEN IF left.threw THEN Throw(s1)
             ELSE [s1 EXCEPT !.imageOffsetX = left.value, !.last.pan = "left"]
      ELSE s1

\* update that leaves the width check to clamp's own assertion
update_lazyAssert(s, dt) ==
  LET imageMovement == panningSpeed * dt
      canvasWidth == s.canvas.width
      imageWidth == s.foregroundCanvas.width
      limit == Px(imageWidth - canvasWidth)
      s1 == [Did(s, "update") EXCEPT !.last.movement = imageMovement]
      left == clamp(s.imageOffsetX - imageMovement, 0, limit)
      right == clamp(s.imageOffsetX + imageMovement, 0, limit)
  IN  IF isOneKeyDown(s.g_keys, <<KEY_ARROW_LEFT, KEY_A>>)
        THEN IF left.threw THEN Throw(s1)
             ELSE [s1 EXCEPT !.imageOffsetX = left.value, !.last.pan = "left"]
      ELSE IF isOneKeyDown(s.g_keys, <<KEY_ARROW_RIGHT, KEY_D>>)
        THEN IF right.threw THEN Throw(s1)
             ELSE [s1 EXCEPT !.imageOffsetX = right.value,
                             !.last.pan = "right"]
      ELSE s1

update(s, dt) ==
  LET imageMovement == panningSpeed * dt
      canvasWidth == s.canvas.width
      imageWidth == s.foregroundCanvas.width
      limit == Px(imageWidth - canvasWidth)
      s1 == [Did(s, "update") EXCEPT !.last.movement = imageMovement]
      left == clamp(s.imageOffsetX - imageMovement, 0, limit)
      right == clamp(s.imageOffsetX + imageMovement, 0, limit)
  IN  IF ~(canvasWidth < imageWidth) THEN Throw(s1)
      ELSE IF isOneKeyDown(s.g_keys, <<KEY_ARROW_LEFT, KEY_A>>)
        THEN IF left.threw THEN Throw(s1)
             ELSE [s1 EXCEPT !.imageOffsetX = left.value, !.last.pan = "left"]
      ELSE IF isOneKeyDown(s.g_keys, <<KEY_ARROW_RIGHT, KEY_D>>)
        THEN IF right.threw THEN Throw(s1)
             ELSE [s1 EXCEPT !.imageOffsetX = right.value,
                             !.last.pan = "right"]
      ELSE s1

\* DrawCalls whose lens samples the background without the pan offset
DrawCalls_noOffset(s) ==
  LET borderWidth == s.borderCanvas.width
      borderHeight == s.borderCanvas.height
      halfBackgroundWidth == borderWidth * LensRatioNum * UnitsPerSecond
      halfBackgroundHeight == borderHeight * LensRatioNum * UnitsPerSecond
      mx == PxToDraw(s.mouse.x)
      my == PxToDraw(s.mouse.y)
  IN  << [call |-> "fillRect", x |-> 0, y |-> 0,
          width |-> PxToDraw(s.canvas.width),
          height |-> PxToDraw(s.canvas.height)],
         [call |-> "drawImage", image |-> "foregroundCanvas",
          dx |-> 0 - OffsetToDraw(s.imageOffsetX), dy |-> 0],
         [call |-> "drawImage", image |-> "backgroundCanvas",
          sx |-> mx - halfBackgroundWidth,
          sy |-> my - halfBackgroundHeight,
          sWidth |-> 2 * halfBackgroundWidth,
          sHeight |-> 2 * halfBackgroundHeight,
          dx |-> mx - halfBackgroundWidth,
          dy |-> my - halfBackgroundHeight,
          dWidth |-> 2 * halfBackgroundWidth,
          dHeight |-> 2 * halfBackgroundHeight],
         [call |-> "drawImage", image |-> "borderCanvas",
          dx |-> mx - PxToDraw(borderWidth) \div 2,
          dy |-> my - PxToDraw(borderHeight) \div 2] >>

\* the draw calls of one render, in order, in draw-call units
DrawCalls(s) ==
  LET borderWidth == s.borderCanvas.width
      borderHeight == s.borderCanvas.height
      \* backgroundWidth / 2 and backgroundHeight / 2
      halfBackgroundWidth == borderWidth * LensRatioNum * UnitsPerSecond
      halfBackgroundHeight == borderHeight * LensRatioNum * UnitsPerSecond
      mx == PxToDraw(s.mouse.x)
      my == PxToDraw(s.mouse.y)
  IN  << [call |-> "fillRect", x |-> 0, y |-> 0,
          width |-> PxToDraw(s.canvas.width),
          height |-> PxToDraw(s.canvas.height)],
         [call |-> "drawImage", image |-> "foregroundCanvas",
          dx |-> 0 - OffsetToDraw(s.imageOffsetX), dy |-> 0],
         [call |-> "drawImage", image |-> "backgroundCanvas",
          sx |-> mx + OffsetToDraw(s.imageOffsetX) - halfBackgroundWidth,
          sy |-> my - halfBackgroundHeight,
          sWidth |-> 2 * halfBackgroundWidth,
          sHeight |-> 2 * halfBackgroundHeight,
          dx |-> mx - halfBackgroundWidth,
          dy |-> my - halfBackgroundHeight,
          dWidth |-> 2 * halfBackgroundWidth,
          dHeight |-> 2 * halfBackgroundHeight],
         [call |-> "drawImage", image |-> "borderCanvas",
          dx |-> mx - PxToDraw(borderWidth) \div 2,
          dy |-> my - PxToDraw(borderHeight) \div 2] >>

render(s, dt) ==
  IF ~s.ready THEN s
  ELSE [Did(s, "render") EXCEPT !.last.frame = DrawCalls(s)]

\* step with render called before update
step_renderFirst(s, dt) == update(render(s, dt), dt)

step(s, dt) ==
  Then(Then(s, LAMBDA x : update(x, dt)),
       LAMBDA u : IF u.last.threw THEN u ELSE render(u, dt))

\* animate with Math.min in place of Math.max
animate_min(s, currentTime) ==
  IF ~s.animating THEN s
  ELSE LET dt == Min(currentTime - s.previousTime, MinFrameTime)
           s1 == [Did(s, "dt") EXCEPT
                    !.last.elapsed = currentTime - s.previousTime,
                    !.last.dt = dt]
           s2 == [Did(s1, "previousTime") EXCEPT !.previousTime = currentTime]
           s3 == step(s2, dt)
       IN  IF s3.last.threw THEN s3 ELSE requestAnimationFrame(s3)

\* animate without the check of animating on entry
animate_noGuard(s, currentTime) ==
  LET dt == Max(currentTime - s.previousTime, MinFrameTime)
      s1 == [Did(s, "dt") EXCEPT
               !.last.elapsed = currentTime - s.previousTime,
               !.last.dt = dt]
      s2 == [Did(s1, "previousTime") EXCEPT !.previousTime = currentTime]
      s3 == step(s2, dt)
  IN  IF s3.last.threw THEN s3 ELSE requestAnimationFrame(s3)

animate(s, currentTime) ==
  IF ~s.animating THEN s
  ELSE LET dt == Max(currentTime - s.previousTime, MinFrameTime)
           s1 == [Did(s, "dt") EXCEPT
                    !.last.elapsed = currentTime - s.previousTime,
                    !.last.dt = dt]
           s2 == [Did(s1, "previousTime") EXCEPT !.previousTime = currentTime]
       IN  Then(step(s2, dt),
                LAMBDA s3 : IF s3.last.threw THEN s3
                            ELSE requestAnimationFrame(s3))

stopAnimation(s) ==
  cancelAnimationFrame([s EXCEPT !.animating = FALSE], s.animationRequestID)

\* startAnimation without the check of animating on entry
startAnimation_noGuard(s) ==
  animate([s EXCEPT !.animating = TRUE, !.previousTime = 0], 0)

startAnimation(s) ==
  IF s.animating THEN s
  ELSE animate([s EXCEPT !.animating = TRUE, !.previousTime = 0], 0)

----------------------------------------------------------------------------
(* Start-up: main() *)

\* the join without promiseWindowLoaded
JoinFulfilled_noWindow(s) ==
  \A n \in ImageNames : s.loads[n].status = "loaded"

\* Promise.all fulfils when the window has loaded and every image has
JoinFulfilled(s) ==
  /\ s.windowLoaded
  /\ \A n \in ImageNames : s.loads[n].status = "loaded"

\* Promise.all rejects as soon as one image fails
JoinRejected(s) == \E n \in ImageNames : s.loads[n].status = "failed"

\* main() after its await
mainResume(s) ==
  LET s1 == [s EXCEPT !.mainState = "resumed",
                      !.foregroundImage = s.loads["foreground"].size,
                      !.backgroundImage = s.loads["background"].size,
                      !.borderImage = s.loads["border"].size]
  IN  IF \/ s1.foregroundImage = NoImage
         \/ s1.backgroundImage = NoImage
         \/ s1.borderImage = NoImage
         \/ s1.foregroundImage.width # s1.backgroundImage.width
         \/ s1.foregroundImage.height # s1.backgroundImage.height
      THEN Throw(s1)
      ELSE LET s2 == resizeCanvas([s1 EXCEPT !.ready = TRUE])
               s3 == [s2 EXCEPT !.mouseListener = TRUE]
           IN  startAnimation(s3)

\* the microtasks that follow a load or error event: main() is resumed or
\* rejected in the same task as the event that settles the join
settle(s) ==
  IF s.mainState # "awaiting" THEN s
  ELSE IF JoinRejected(s) THEN [s EXCEPT !.mainState = "rejected"]
  ELSE IF JoinFulfilled(s) THEN mainResume(s)
  ELSE s

----------------------------------------------------------------------------
(* Actions: one per handler *)

\* the module-level state once the script has been evaluated
ProgramInit ==
  /\ windowLoaded = FALSE
  /\ loads = [n \in ImageNames |-> [status |-> "pending", size |-> NoImage]]
  /\ mainState = "awaiting"
  /\ rect \in Rects
  /\ now = 0
  /\ pending = {}
  /\ mouseListener = FALSE
  /\ canvas = Size(0, 0)
  /\ foregroundImage = NoImage
  /\ backgroundImage = NoImage
  /\ borderImage = NoImage
  /\ foregroundCanvas = NewCanvas
  /\ backgroundCanvas = NewCanvas
  /\ borderCanvas = NewCanvas
  /\ imageScale = [num |-> 1, den |-> 1]
  /\ ready = FALSE
  /\ animating = FALSE
  /\ imageOffsetX = 0
  /\ animationRequestID = NoHandle
  /\ mouse = [x |-> 0, y |-> 0]
  /\ previousTime = 0
  /\ g_keys = [k \in Keys |-> FALSE]
  /\ last = Entered("main")

Init ==
  /\ ProgramInit
  /\ panTime = 0
  /\ probe = NoProbe

\* the window's load event
WindowLoad ==
  /\ ~windowLoaded
  /\ Commit(settle([Enter(Cur, "load") EXCEPT !.windowLoaded = TRUE]))

\* image.onload of one fetchImage
ImageLoad(name, size) ==
  /\ loads[name].status = "pending"
  /\ Commit(settle([Enter(Cur, "image.onload") EXCEPT
                      !.loads[name] = [status |-> "loaded", size |-> size]]))

\* image.onerror of one fetchImage
ImageError(name) ==
  /\ loads[name].status = "pending"
  /\ Commit(settle([Enter(Cur, "image.onerror") EXCEPT
                      !.loads[name].status = "failed"]))

KeyDown(keyCode) ==
  Commit([Enter(Cur, "keydown") EXCEPT !.g_keys[keyCode] = TRUE])

KeyUp(keyCode) ==
  Commit([Enter(Cur, "keyup") EXCEPT !.g_keys[keyCode] = FALSE])

\* the canvas's mousemove listener; p is getMousePosition(canvas, evt)
MouseMove(p) ==
  /\ mouseListener
  /\ Commit([Enter(Cur, "mousemove") EXCEPT !.mouse = p])

\* the window is resized: the canvas element is laid out anew, then onresize
Resize(r) ==
  Commit(resizeCanvas([Enter(Cur, "resize") EXCEPT !.rect = r]))

\* The embedding page calls startAnimation() or stopAnimation().  It does so
\* only once ready is set: "Set to true when animation and rendering can begin".
StartAnimation ==
  /\ ready
  /\ Commit(startAnimation(Enter(Cur, "startAnimation")))

StopAnimation ==
  /\ ready
  /\ Commit(stopAnimation(Enter(Cur, "stopAnimation")))

\* the state after the browser has run request h with timestamp t
FrameResult(h, t) ==
  Then([Enter(Cur, "frame") EXCEPT !.pending = @ \ {h}, !.now = t],
       LAMBDA s : animate(s, t))

\* the browser runs the animation frame request h with timestamp t
Frame(h, t) ==
  /\ h \in pending
  /\ t >= now
  /\ Commit(FrameResult(h, t))

\* animate is entered while not animating: a callback that arrives after
\* stopAnimation, the case the check on entering animate is written for
LateFrame(t) ==
  /\ ready
  /\ ~animating
  /\ t >= now
  /\ Commit(animate([Enter(Cur, "lateFrame") EXCEPT !.now = t], t))

Next ==
  \/ WindowLoad
  \/ \E n \in ImageNames : \E z \in ImageSizes(n) : ImageLoad(n, z)
  \/ \E n \in ImageNames : ImageError(n)
  \/ \E k \in Keys : KeyDown(k)
  \/ \E k \in Keys : KeyUp(k)
  \/ \E p \in MousePositions : MouseMove(p)
  \/ \E r \in Rects : Resize(r)
  \/ StartAnimation
  \/ StopAnimation
  \/ \E h \in pending : \E t \in Times : Frame(h, t)
  \/ \E t \in Times : LateFrame(t)

Spec == Init /\ [][Next]_vars

----------------------------------------------------------------------------
(* The pan scenario: canvas 800 x 600, foreground 3000 x 1500, a pan-right  *)
(* key held from the first frame on, ticks until their effective dt sum to  *)
(* one second                                                               *)

ScenarioImage(name) ==
  IF name = "border" THEN Size(100, 80) ELSE Size(3000, 1500)

\* the state in which the last load event finds the program
ScenarioLoaded ==
  [windowLoaded |-> TRUE,
   loads |-> [n \in ImageNames |->
                [status |-> "loaded", size |-> ScenarioImage(n)]],
   mainState |-> "awaiting", rect |-> Size(800, 600), now |-> 0,
   pending |-> {}, mouseListener |-> FALSE, canvas |-> Size(0, 0),
   foregroundImage |-> NoImage, backgroundImage |-> NoImage,
   borderImage |-> NoImage, foregroundCanvas |-> NewCanvas,
   backgroundCanvas |-> NewCanvas, borderCanvas |-> NewCanvas,
   imageScale |-> [num |-> 1, den |-> 1], ready |-> FALSE,
   animating |-> FALSE, imageOffsetX |-> 0, animationRequestID |-> NoHandle,
   mouse |-> [x |-> 0, y |-> 0], previousTime |-> 0,
   g_keys |-> [k \in Keys |-> FALSE], last |-> Entered("image.onload")]

\* main() has resumed and started the loop, then a pan-right key went down
ScenarioInit ==
  /\ \E k \in {KEY_ARROW_RIGHT, KEY_D} :
       Holds([settle(ScenarioLoaded) EXCEPT !.g_keys[k] = TRUE,
                                            !.last = Entered("keydown")])
  /\ panTime = 0
  /\ probe = NoProbe

\* a tick of the scenario; panTime adds up the effective dt
ScenarioFrame(h, t) ==
  /\ panTime < UnitsPerSecond
  /\ h \in pending
  /\ t >= now
  /\ CommitProgram(FrameResult(h, t))
  /\ panTime' = panTime + FrameResult(h, t).last.dt
  /\ UNCHANGED probe

ScenarioNext ==
  \E h \in pending : \E t \in now..(now + MaxTime) : ScenarioFrame(h, t)

SpecScenario == ScenarioInit /\ [][ScenarioNext]_vars

----------------------------------------------------------------------------
(* Properties *)

\* everything but the observation of the last handler
progVars == <<windowLoaded, loads, mainState, rect, now, pending,
              mouseListener, canvas, foregroundImage, backgroundImage,
              borderImage, foregroundCanvas, backgroundCanvas, borderCanvas,
              imageScale, ready, animating, imageOffsetX, animationRequestID,
              mouse, previousTime, g_keys>>

Performed(l, name) == \E i \in 1..Len(l.steps) : l.steps[i] = name

\* foregroundCanvas.width - canvas.width, in offset units
TravelLimit == Px(foregroundCanvas.width - canvas.width)

OffsetInRange == 0 <= imageOffsetX /\ imageOffsetX <= TravelLimit

\* the viewport update accepts: canvasWidth < imageWidth
ViewportValid == ready /\ canvas.width < foregroundCanvas.width

LeftHeld == g_keys[KEY_ARROW_LEFT] \/ g_keys[KEY_A]
RightHeld == g_keys[KEY_ARROW_RIGHT] \/ g_keys[KEY_D]

\* C1: while the viewport stays as it is (canvas narrower than the scaled
\* foreground), no handler takes imageOffsetX out of [0, travelLimit]; with
\* imageOffsetX = 0 at the start this keeps it in the range after any sequence
\* of ticks, held keys and elapsed times.
C1_PanBoundsFixedViewport ==
  [][(/\ ViewportValid
      /\ canvas' = canvas
      /\ foregroundCanvas' = foregroundCanvas
      /\ OffsetInRange) => OffsetInRange']_vars

\* a tick panned right and the clamp cut the movement down to the limit
C1_Witness ==
  /\ ViewportValid
  /\ last.op = "frame"
  /\ last.pan = "right"
  /\ imageOffsetX = TravelLimit
  /\ last.movement > TravelLimit

\* C2: once ready, imageOffsetX lies in [0, foregroundCanvas.width -
\* canvas.width] of the current viewport in every state (stated here for the
\* viewports in which that range is not empty).
C2_OffsetWithinCurrentViewport == ViewportValid => OffsetInRange

\* C3: between handlers exactly one tick is scheduled when animating is true
\* and none when it is false.
C3_AnimatingMatchesScheduling ==
  IF animating THEN Cardinality(pending) = 1 ELSE pending = {}

\* C4: startAnimation while animating, and stopAnimation while idle, change
\* nothing: no tick is run or scheduled and previousTime is not reset.
C4_StartStopIdempotent ==
  [][/\ (last'.op = "startAnimation" /\ animating) =>
          (UNCHANGED progVars /\ last'.steps = <<>>)
     /\ (last'.op = "stopAnimation" /\ ~animating) =>
          UNCHANGED progVars]_vars

\* startAnimation has just been called while a tick was scheduled, after a
\* tick had set previousTime
C4_Witness ==
  /\ last.op = "startAnimation"
  /\ last.steps = <<>>
  /\ animating
  /\ pending # {}
  /\ previousTime > 0

\* C5: a tick that runs while animating is false does nothing: no update, no
\* render, imageOffsetX and previousTime as they were, no tick scheduled.
C5_IdleTickIsNoOp ==
  [][(last'.op \in {"frame", "lateFrame"} /\ ~animating) =>
       /\ last'.steps = <<>>
       /\ last'.frame = <<>>
       /\ imageOffsetX' = imageOffsetX
       /\ previousTime' = previousTime
       /\ pending' \subseteq pending
       /\ animationRequestID' = animationRequestID
       /\ animating' = animating]_vars

\* a callback has just run while idle, with a pan key held and a timestamp
\* later than previousTime
C5_Witness ==
  /\ last.op = "lateFrame"
  /\ ~animating
  /\ RightHeld
  /\ ViewportValid
  /\ now > previousTime

C7_LeftPriority ==
  [][(Performed(last', "update") /\ LeftHeld /\ RightHeld) =>
       /\ imageOffsetX' <= imageOffsetX
       /\ ~last'.threw =>
            /\ last'.pan = "left"
            /\ imageOffsetX' =
                 Min(TravelLimit',
                     Max(0, imageOffsetX - panningSpeed * last'.dt))]_vars

\* a tick with both directions held has moved the offset left to a value
\* strictly inside the range
C7_Witness ==
  /\ last.op = "frame"
  /\ LeftHeld
  /\ RightHeld
  /\ last.pan = "left"
  /\ 0 < imageOffsetX
  /\ imageOffsetX < TravelLimit

TickOrder == <<"dt", "previousTime", "update", "render", "requestAnimationFrame">>

IsTickStep(name) == name # "resizeCanvas"

TickSteps(l) == SelectSeq(l.steps, IsTickStep)

IsPrefix(a, b) == Len(a) <= Len(b) /\ SubSeq(b, 1, Len(a)) = a

\* C8: a tick performs its steps in the order effective dt, previousTime,
\* update, render, schedule; the frame render draws uses the offset its own
\* tick's update produced and the mouse and viewport the handler leaves.
C8_TickOrder ==
  LET ts == TickSteps(last)
  IN  /\ IsPrefix(ts, TickOrder)
      /\ (ts # <<>> /\ ~last.threw) => ts = TickOrder
      /\ Performed(last, "render") =>
           /\ Len(last.frame) = 4
           /\ last.frame[2].dx = 0 - OffsetToDraw(imageOffsetX)
           /\ last.frame[3].sx - last.frame[3].dx = OffsetToDraw(imageOffsetX)
           /\ last.frame = DrawCalls(Cur)

\* a complete tick has panned and drawn
C8_Witness ==
  /\ last.op = "frame"
  /\ last.steps = TickOrder
  /\ last.pan = "right"
  /\ imageOffsetX > 0
  /\ mouse.x > 0

\* C9: imageOffsetX changes, and update and render run, only in handlers that
\* leave ready and animating both true.
C9_ReadyAnimatingGate ==
  [][(\/ imageOffsetX' # imageOffsetX
      \/ Performed(last', "update")
      \/ Performed(last', "render")
      \/ last'.frame # <<>>) => (ready' /\ animating')]_vars

\* a callback ran while idle with a pan-left key held and the offset above 0,
\* and neither moved nor drew
C9_Witness ==
  /\ last.op = "lateFrame"
  /\ ~animating
  /\ LeftHeld
  /\ imageOffsetX > 0
  /\ ViewportValid
  /\ last.frame = <<>>

AnyFailed == \E n \in ImageNames : loads[n].status = "failed"

LoadGate ==
  /\ ready =>
       /\ windowLoaded
       /\ \A n \in ImageNames : loads[n].status = "loaded"
       /\ loads["foreground"].size = loads["background"].size
       /\ ~AnyFailed
  /\ AnyFailed =>
       /\ ~ready
       /\ ~animating
       /\ pending = {}
       /\ animationRequestID = NoHandle
       /\ ~mouseListener
       /\ canvas = Size(0, 0)
       /\ imageScale = [num |-> 1, den |-> 1]
       /\ foregroundCanvas = NewCanvas
       /\ backgroundCanvas = NewCanvas
       /\ borderCanvas = NewCanvas
       /\ imageOffsetX = 0
       /\ last.steps = <<>>

\* C10: ready is true only after the window load and all three image loads
\* have succeeded with foreground and background of one size; once an image
\* has failed, ready stays false, no animation is started and resize changes
\* nothing, in every later state.
C10_ReadyOnlyAfterAllLoads ==
  [][LoadGate' /\ (AnyFailed => AnyFailed')]_vars

\* the window and two images have loaded, one image has failed, and a resize
\* has just been handled
C10_Witness ==
  /\ AnyFailed
  /\ windowLoaded
  /\ \E n \in ImageNames :
       \A m \in ImageNames \ {n} : loads[m].status = "loaded"
  /\ mainState = "rejected"
  /\ last.op = "resize"
  /\ ~ready

\* C11: canvas 800 x 600 and foreground 3000 x 1500 give a scaled foreground
\* 1200 wide and a travel limit of 400; from imageOffsetX = 0, with only a
\* pan-right key held, once the effective dt of the ticks sum to 1000 ms
\* imageOffsetX is exactly 400.
C11_PanScenario ==
  /\ canvas = Size(800, 600)
  /\ foregroundCanvas.width = 1200
  /\ TravelLimit = Px(400)
  /\ RightHeld /\ ~LeftHeld
  /\ panTime = 0 => imageOffsetX = 0
  /\ panTime = UnitsPerSecond => imageOffsetX = Px(400)

\* the ticks' effective dt sum to exactly one second, the last tick having
\* run later than 1000/60 ms after the one before
C11_Witness ==
  /\ panTime = UnitsPerSecond
  /\ last.op = "frame"
  /\ last.dt > MinFrameTime
  /\ imageOffsetX = Px(400)

ViewportState ==
  <<canvas, imageScale, foregroundCanvas, backgroundCanvas, borderCanvas>>

\* C12: imageOffsetX is changed only by a handler whose update panned, never
\* by resize, key, mouse or stop handlers; a tick writes neither the mouse
\* position nor the keys; canvas size, imageScale and the scaled image sizes
\* change only in resizeCanvas with ready set.
C12_Ownership ==
  [][/\ imageOffsetX' # imageOffsetX =>
          (Performed(last', "update") /\ last'.pan # "none")
     /\ last'.op \in {"resize", "keydown", "keyup", "mousemove",
                      "stopAnimation"} => imageOffsetX' = imageOffsetX
     /\ (last'.op \in {"frame", "lateFrame"} \/ Performed(last', "dt")) =>
          (mouse' = mouse /\ g_keys' = g_keys)
     /\ ViewportState' # ViewportState =>
          (Performed(last', "resizeCanvas") /\ ready')]_vars

\* a resize has narrowed the travel range and left the offset where it was,
\* beyond the new limit
C12_Witness ==
  /\ last.op = "resize"
  /\ Performed(last, "resizeCanvas")
  /\ ViewportValid
  /\ imageOffsetX > TravelLimit

\* C13: keys are sampled by the tick: key handlers never move the offset, a
\* tick with no pan key held leaves it, and a tick with a pan key held moves
\* it (left while above 0; right, with no pan-left key held, while below the
\* limit).
C13_KeysSampledAtTick ==
  [][/\ last'.op \in {"keydown", "keyup"} => imageOffsetX' = imageOffsetX
     /\ Performed(last', "update") =>
          /\ (~LeftHeld' /\ ~RightHeld') =>
               (imageOffsetX' = imageOffsetX /\ last'.pan = "none")
          /\ (~last'.threw /\ LeftHeld' /\ imageOffsetX > 0) =>
               imageOffsetX' < imageOffsetX
          /\ (~last'.threw /\ RightHeld' /\ ~LeftHeld'
                /\ imageOffsetX < TravelLimit') =>
               imageOffsetX' > imageOffsetX]_vars

\* a tick has run with no pan key held and left an offset inside the range
C13_Witness ==
  /\ last.op = "frame"
  /\ Performed(last, "update")
  /\ ~LeftHeld /\ ~RightHeld
  /\ last.pan = "none"
  /\ 0 < imageOffsetX
  /\ imageOffsetX < TravelLimit

\* canvas and source heights for which the scaling law is evaluated directly
ScaleHeights == 1..12

\* resizeImage applied to a source of height H with scale h / H
ScaleLaw ==
  \A h \in ScaleHeights : \A H \in ScaleHeights :
    resizeImage(Size(2 * H, H), h, H).height = h

\* C14: once ready (so after resizeCanvas), imageScale is canvas.height /
\* foregroundImage.height and the scaled foreground height, round(imageScale *
\* foregroundImage.height), is canvas.height.
C14_ScaleInvariant ==
  /\ ScaleLaw
  /\ ready =>
       /\ imageScale.num * foregroundImage.height
            = canvas.height * imageScale.den
       /\ foregroundCanvas.height
            = Round(imageScale.num * foregroundImage.height, imageScale.den)
       /\ foregroundCanvas.height = canvas.height

\* a resize has scaled the images by a factor other than 1
C14_Witness ==
  /\ last.op = "resize"
  /\ Performed(last, "resizeCanvas")
  /\ imageScale.num # imageScale.den
  /\ foregroundCanvas.height # foregroundImage.height

\* the lens draw call of a render
Lens(frame) == frame[3]

\* the spec's sample: mouse (100, 100), offset 50, border scaled to 200 x 150
LensSample ==
  Lens(DrawCalls([canvas |-> Size(800, 600), borderCanvas |-> Size(200, 150),
                  mouse |-> [x |-> 100, y |-> 100],
                  imageOffsetX |-> Px(50)]))

\* the lens geometry of one lens draw call for a mouse position, an offset
\* and a scaled border size
LensGeometry(l, m, offset, border) ==
  /\ l.image = "backgroundCanvas"
  /\ 2 * l.sx + l.sWidth = 2 * (PxToDraw(m.x) + OffsetToDraw(offset))
  /\ 2 * l.sy + l.sHeight = 2 * PxToDraw(m.y)
  /\ 2 * l.dx + l.dWidth = 2 * PxToDraw(m.x)
  /\ 2 * l.dy + l.dHeight = 2 * PxToDraw(m.y)
  /\ l.sWidth = LensRatioNum * border.width * (DrawScale \div LensRatioDen)
  /\ l.sHeight = LensRatioNum * border.height * (DrawScale \div LensRatioDen)
  /\ l.dWidth = l.sWidth
  /\ l.dHeight = l.sHeight
  /\ l.sx - l.dx = OffsetToDraw(offset)
  /\ l.sy - l.dy = 0

\* C15: the lens source rectangle of a render is centered at (mouse.x +
\* imageOffsetX, mouse.y), its destination at the mouse, both 0.937 times the
\* scaled border in size, so source origin - destination origin is
\* (imageOffsetX, 0); the sample has center (150, 100), size 187.4 x 140.55.
C15_LensGeometry ==
  /\ LensGeometry(LensSample, [x |-> 100, y |-> 100], Px(50), Size(200, 150))
  /\ 2 * LensSample.sx + LensSample.sWidth = 2 * PxToDraw(150)
  /\ 2 * LensSample.sy + LensSample.sHeight = 2 * PxToDraw(100)
  /\ LensSample.sWidth = 1874 * (DrawScale \div 10)
  /\ LensSample.sHeight = 14055 * (DrawScale \div 100)
  /\ Performed(last, "render") =>
       /\ Len(last.frame) = 4
       /\ LensGeometry(Lens(last.frame), mouse, imageOffsetX, borderCanvas)

\* a tick has rendered with the mouse off the origin and the image panned
C15_Witness ==
  /\ last.op = "frame"
  /\ Performed(last, "render")
  /\ mouse.x > 0
  /\ imageOffsetX > 0

-----------------------------------------------------------------------------
(* clamp on its own: every argument triple of a small range *)

ClampArgs == (0 - MaxClampArg)..MaxClampArg

ClampInit ==
  /\ ProgramInit
  /\ panTime = 0
  /\ probe \in {[NoProbe EXCEPT !.value = v, !.minValue = lo, !.maxValue = hi] :
                  v \in ClampArgs, lo \in ClampArgs, hi \in ClampArgs}

\* the call clamp(value, minValue, maxValue)
ClampCall ==
  /\ ~probe.applied
  /\ probe' = [probe EXCEPT
                 !.applied = TRUE,
                 !.result = clamp(probe.value, probe.minValue, probe.maxValue)]
  /\ UNCHANGED <<progVars, last, panTime>>

SpecClamp == ClampInit /\ [][ClampCall]_vars

\* C16: for minValue <= maxValue, clamp returns a value in [minValue,
\* maxValue], and value itself when it is already in the range; for
\* minValue > maxValue the call fails its assertion and returns nothing.
C16_ClampContract ==
  probe.applied =>
    IF probe.minValue <= probe.maxValue
      THEN /\ ~probe.result.threw
           /\ probe.minValue <= probe.result.value
           /\ probe.result.value <= probe.maxValue
           /\ (probe.minValue <= probe.value /\ probe.value <= probe.maxValue)
                => probe.result.value = probe.value
      ELSE probe.result.threw

\* clamp has brought a value above a proper range down to maxValue
C16_Witness ==
  /\ probe.applied
  /\ probe.minValue < probe.maxValue
  /\ probe.value > probe.maxValue
  /\ ~probe.result.threw
  /\ probe.result.value = probe.maxValue

\* C17: the dt a tick passes to step is never more than 1000 / 60 ms.
C17_DtAtMostFrameTime ==
  Performed(last, "dt") => last.dt <= MinFrameTime

\* the loop after a failed tick: animating, and no animation frame requested
LoopDead == animating /\ pending = {}

\* C18: a tick whose update runs with canvas.width >= foregroundCanvas.width
\* fails update's assertion, pan key held or not: the offset is unchanged,
\* there is no render and no request for a next frame; and from then on, for
\* as long as animating stays set, no tick runs.
C18_FatalAssertion ==
  [][/\ (Performed(last', "update")
           /\ ~(canvas'.width < foregroundCanvas'.width)) =>
          /\ last'.threw
          /\ last'.pan = "none"
          /\ imageOffsetX' = imageOffsetX
          /\ ~Performed(last', "render")
          /\ last'.frame = <<>>
          /\ ~Performed(last', "requestAnimationFrame")
          /\ LoopDead'
     /\ LoopDead => ~Performed(last', "dt")
     /\ (LoopDead /\ animating') => LoopDead']_vars

\* a scheduled tick has failed the assertion with no pan key held
C18_Witness ==
  /\ last.op = "frame"
  /\ Performed(last, "update")
  /\ last.threw
  /\ ~LeftHeld /\ ~RightHeld
  /\ ~(canvas.width < foregroundCanvas.width)
  /\ imageOffsetX > 0
  /\ LoopDead

\* C19: on a tick with only a pan-right key held imageOffsetX never
\* decreases, and on a tick with a pan-left key held it never increases.
C19_PanMonotone ==
  [][Performed(last', "update") =>
       /\ (RightHeld' /\ ~LeftHeld') => imageOffsetX' >= imageOffsetX
       /\ LeftHeld' => imageOffsetX' <= imageOffsetX]_vars

-----------------------------------------------------------------------------
(* The loop under fair delivery of the requested animation frame *)

\* the browser runs some requested animation frame
Tick == \E h \in pending : \E t \in Times : Frame(h, t)

\* one key of each direction, an arrow and a letter
LiveKeys == {KEY_ARROW_LEFT, KEY_D}

\* the handlers that bear on panning: loading, the two keys, resize, start,
\* stop and the tick
LiveNext ==
  \/ WindowLoad
  \/ \E n \in ImageNames : \E z \in ImageSizes(n) : ImageLoad(n, z)
  \/ \E k \in LiveKeys : KeyDown(k)
  \/ \E k \in LiveKeys : KeyUp(k)
  \/ \E r \in Rects : Resize(r)
  \/ StartAnimation
  \/ StopAnimation
  \/ Tick

\* a requested animation frame that stays requested is eventually run
SpecLive == Init /\ [][LiveNext]_vars /\ WF_vars(Tick)

\* animating with a tick scheduled, in viewport c, which allows panning
Panning(c) ==
  /\ animating
  /\ pending # {}
  /\ canvas = c
  /\ ViewportValid

HoldRight(c) == Panning(c) /\ RightHeld /\ ~LeftHeld

HoldLeft(c) == Panning(c) /\ LeftHeld

\* C20: while animating in one viewport with a tick scheduled, a pan-right
\* key held with no pan-left key held brings imageOffsetX to the travel limit
\* unless the holding ends first, and the offset then stays at the limit while
\* the holding lasts; a held pan-left key brings it to 0 in the same way.
C20_PanningLiveness ==
  /\ \A c \in Rects :
       HoldRight(c) ~> (imageOffsetX = TravelLimit \/ ~HoldRight(c))
  /\ \A c \in Rects :
       HoldLeft(c) ~> (imageOffsetX = 0 \/ ~HoldLeft(c))
  /\ [][\A c \in Rects :
          /\ (HoldRight(c) /\ imageOffsetX = TravelLimit /\ HoldRight(c)')
               => imageOffsetX' = TravelLimit'
          /\ (HoldLeft(c) /\ imageOffsetX = 0 /\ HoldLeft(c)')
               => imageOffsetX' = 0]_vars

\* a tick with only a pan-right key held has brought the offset up to the
\* travel limit of the viewport
C20_Witness ==
  /\ HoldRight(canvas)
  /\ last.op = "frame"
  /\ last.pan = "right"
  /\ imageOffsetX = TravelLimit
  /\ imageOffsetX > last.movement

====
